---------------------------- MODULE Spec2Model ----------------------------
(***************************************************************************)
(* Model of record.py: a capture session made of the serial framer         *)
(* (read_serial, save_message), the CAN bus pipeline (read_CAN_bus) and    *)
(* the orchestrator (main, signal_handler).                                *)
(*                                                                         *)
(* Bytes are integers 0..255, byte strings are sequences of bytes, Python  *)
(* strings are sequences of code points.  An optional value (a Python      *)
(* variable that may hold None) is the empty sequence for None and the     *)
(* one-element sequence <<v>> for the value v.                             *)
(***************************************************************************)
EXTENDS Integers, Sequences, FiniteSets, TLC

(***************************************************************************)
(* Bounds of the model.                                                    *)
(***************************************************************************)
\* reads of the serial device in a run where only the serial pipeline runs
MaxReads == 5
\* reads of the serial device in a run where both pipelines run
MaxSessionReads == 1
\* calls of can_bus.recv in one run
MaxFrames == 2
\* advances of the wall clock in one run
MaxTicks == 1
\* the --end_time given on the command line, when one is given
Duration == 0
\* the stall threshold of the model (the program's is 500000)
StallBound == 2
\* calls of ser.read in a run of the serial reader alone with no deadline
MaxFramerReads == 6

(***************************************************************************)
(* Program constants.                                                      *)
(***************************************************************************)
NULL_CNT == StallBound

DOLLAR == 36
LETTER_G == 71
CR == 13
LF == 10
SYNC1 == 181
SYNC2 == 98

NMEA_START == <<DOLLAR, LETTER_G>>
NMEA_END == <<CR, LF>>
\* a sync window with a wrong second byte
UBX_START_Wrong == <<SYNC1, LETTER_G>>

UBX_START == <<SYNC1, SYNC2>>

\* the bytes the serial device delivers in the model: the six bytes of the
\* three windows; 'G' and 'b' (0x62) are ordinary ASCII letters as well, and
\* 0xB5 alone is not valid UTF-8
Bytes == {DOLLAR, LETTER_G, CR, LF, SYNC1, SYNC2}

None == << >>
Some(v) == <<v>>
Val(o) == o[1]

(***************************************************************************)
(* bytes.hex(): two lower-case hexadecimal digits per byte.                *)
(***************************************************************************)
HexDigit(d) == IF d < 10 THEN 48 + d ELSE 87 + d

RECURSIVE Hex(_)
Hex(res) ==
    IF res = << >> THEN << >>
    ELSE <<HexDigit(Head(res) \div 16), HexDigit(Head(res) % 16)>> \o Hex(Tail(res))

(***************************************************************************)
(* bytes.decode(): strict UTF-8.  Utf8Len is the length of the sequence a  *)
(* lead byte announces (0 for a byte that cannot lead), Utf8Valid tells    *)
(* whether decode() returns, Utf8Decode is the string it returns.          *)
(***************************************************************************)
Utf8Len(b) ==
    IF b < 128 THEN 1
    ELSE IF b >= 194 /\ b <= 223 THEN 2
    ELSE IF b >= 224 /\ b <= 239 THEN 3
    ELSE IF b >= 240 /\ b <= 244 THEN 4
    ELSE 0

IsCont(b) == b >= 128 /\ b <= 191

\* the range the second byte of a sequence must lie in, given its lead byte
SecondOk(lead, b) ==
    IF lead = 224 THEN b >= 160 /\ b <= 191
    ELSE IF lead = 237 THEN b >= 128 /\ b <= 159
    ELSE IF lead = 240 THEN b >= 144 /\ b <= 191
    ELSE IF lead = 244 THEN b >= 128 /\ b <= 143
    ELSE IsCont(b)

RECURSIVE Utf8Valid(_)
Utf8Valid(res) ==
    IF res = << >> THEN TRUE
    ELSE LET n == Utf8Len(Head(res))
         IN  /\ n > 0
             /\ Len(res) >= n
             /\ n >= 2 => SecondOk(Head(res), res[2])
             /\ \A i \in 3..n : IsCont(res[i])
             /\ Utf8Valid(SubSeq(res, n + 1, Len(res)))

RECURSIVE ContBits(_, _)
ContBits(acc, bs) ==
    IF bs = << >> THEN acc
    ELSE ContBits(acc * 64 + (Head(bs) % 64), Tail(bs))

LeadBits(b) ==
    IF b < 128 THEN b
    ELSE IF b <= 223 THEN b % 32
    ELSE IF b <= 239 THEN b % 16
    ELSE b % 8

RECURSIVE Utf8Decode(_)
Utf8Decode(res) ==
    IF res = << >> THEN << >>
    ELSE LET n == Utf8Len(Head(res))
         IN  <<ContBits(LeadBits(Head(res)), SubSeq(res, 2, n))>>
                 \o Utf8Decode(SubSeq(res, n + 1, Len(res)))

(***************************************************************************)
(* save_message: the record is appended in the try block and once more in  *)
(* the finally block; when decode() raises, the except block builds an     *)
(* "Unknown" record and only the finally block appends.                    *)
(***************************************************************************)
Record(timestamp, message_type, data) ==
    [timestamp |-> timestamp, type |-> message_type, data |-> data]

\* save_message with the fallback record appended in the except block too
save_message_twice(messages, res, timestamp, message_type) ==
    LET data == Record(timestamp,
                       IF message_type = "NMEA" /\ ~Utf8Valid(res) THEN "Unknown"
                       ELSE message_type,
                       IF message_type = "NMEA" /\ Utf8Valid(res) THEN Utf8Decode(res)
                       ELSE Hex(res))
    IN  Append(Append(messages, data), data)

save_message(messages, res, timestamp, message_type) ==
    IF message_type \in {"UBX", "Unknown"}
    THEN LET data == Record(timestamp, message_type, Hex(res))
         IN  Append(Append(messages, data), data)
    ELSE IF Utf8Valid(res)
    THEN LET data == Record(timestamp, message_type, Utf8Decode(res))
         IN  Append(Append(messages, data), data)
    ELSE Append(messages, Record(timestamp, "Unknown", Hex(res)))

(***************************************************************************)
(* The state.                                                              *)
(***************************************************************************)
VARIABLES
    \* main and the process
    pc_main,            \* where main is: "start", "serial", "reading", "join",
                        \* "closed" (main returned), "crashed" (main raised)
    enable_serial,      \* --enable_serial
    enable_CAN,         \* --enable_CAN
    end_time,           \* --end_time: None or Some(seconds)
    TERMINATOR_FLAG,    \* the global flag set by signal_handler
    now,                \* time.time(), in seconds
    \* read_serial
    ser_pc,             \* "idle", "running", "done"
    ser_end_time,       \* the local end_time of read_serial after line 149
    flat_time,
    queue,
    previous_data,
    ubx_flag,
    ubx_timestamp,
    nmea_timestamp,
    unknown_timestamp,
    null_cnt,
    messages,
    serial_file,        \* what write_to_file wrote: None or Some(records)
    ser_stop,           \* why the loop ended: "", "stall", "deadline",
                        \* "cancel", "error", "typeerror"
    \* read_CAN_bus
    can_pc,             \* "idle", "setup", "running", "done", "killed"
    can_messages,
    can_file,           \* what write_to_file wrote: None or Some(records)
    can_stop,           \* why the loop ended: "", "deadline", "cancel",
                        \* "error"
    \* what the sources have delivered so far
    consumed,           \* the bytes ser.read has returned, in order
    reads,              \* the number of ser.read calls that returned
    cancel_reads,       \* the number of read results processed with the
                        \* flag already set
    empty_run,          \* the number of empty reads since the last byte
    stop_reads,         \* the number of read results processed with the
                        \* flag already set or the deadline already passed
    received,           \* what can_bus.recv has returned, in order
    can_dropped         \* TRUE once decode_message has raised

mainVars == <<pc_main, enable_serial, enable_CAN, end_time, TERMINATOR_FLAG, now>>
framerVars == <<queue, previous_data, ubx_flag, ubx_timestamp, nmea_timestamp,
                unknown_timestamp, messages>>
serVars == <<ser_pc, ser_end_time, flat_time, framerVars, null_cnt, serial_file,
             ser_stop, consumed, reads, cancel_reads, empty_run, stop_reads>>
canVars == <<can_pc, can_messages, can_file, can_stop, received, can_dropped>>
vars == <<mainVars, serVars, canVars>>

\* time.time() counts seconds since 1970: far more than any --end_time
EpochStart == 100

Micros(t) == t * 1000000

Durations == {None, Some(Duration)}

Init ==
    /\ pc_main = "start"
    /\ enable_serial \in BOOLEAN
    /\ enable_CAN \in BOOLEAN
    /\ enable_serial \/ enable_CAN
    /\ end_time \in Durations
    /\ TERMINATOR_FLAG = FALSE
    /\ now = EpochStart
    /\ ser_pc = "idle"
    /\ ser_end_time = None
    /\ flat_time = 0
    /\ queue = << >>
    /\ previous_data = << >>
    /\ ubx_flag = FALSE
    /\ ubx_timestamp = None
    /\ nmea_timestamp = None
    /\ unknown_timestamp = None
    /\ null_cnt = 0
    /\ messages = << >>
    /\ serial_file = None
    /\ ser_stop = ""
    /\ can_pc = "idle"
    /\ can_messages = << >>
    /\ can_file = None
    /\ can_stop = ""
    /\ consumed = << >>
    /\ reads = 0
    /\ cancel_reads = 0
    /\ empty_run = 0
    /\ stop_reads = 0
    /\ received = << >>
    /\ can_dropped = FALSE

(***************************************************************************)
(* The environment: the wall clock and SIGINT.                             *)
(***************************************************************************)
Running == pc_main \notin {"closed", "crashed"}

Tick ==
    /\ Running
    /\ now < EpochStart + MaxTicks
    /\ now' = now + 1
    /\ UNCHANGED <<pc_main, enable_serial, enable_CAN, end_time, TERMINATOR_FLAG,
                   serVars, canVars>>

signal_handler ==
    /\ Running
    /\ ~TERMINATOR_FLAG
    /\ TERMINATOR_FLAG' = TRUE
    /\ UNCHANGED <<pc_main, enable_serial, enable_CAN, end_time, now, serVars,
                   canVars>>

\* the stop test both loops make after a processed unit
DeadlinePassed(limit, t) == limit # None /\ t > Val(limit)

StopRequested(limit, t) == DeadlinePassed(limit, t) \/ TERMINATOR_FLAG

StopReason(limit, t) == IF DeadlinePassed(limit, t) THEN "deadline" ELSE "cancel"

(***************************************************************************)
(* main, lines 247-257: the CAN thread is started as a daemon thread.      *)
(***************************************************************************)
MainStartCan ==
    /\ pc_main = "start"
    /\ pc_main' = "serial"
    /\ can_pc' = IF enable_CAN THEN "setup" ELSE can_pc
    /\ UNCHANGED <<enable_serial, enable_CAN, end_time, TERMINATOR_FLAG, now,
                   serVars, can_messages, can_file, can_stop, received, can_dropped>>

\* a daemon thread ends with the process when main raises
KillDaemon(pc) == IF pc \in {"setup", "running"} THEN "killed" ELSE pc

(***************************************************************************)
(* main, lines 259-272, and read_serial, lines 135-149: serial.Serial()    *)
(* opens the device (ok) or raises (~ok), which ends main; read_serial     *)
(* then initialises its locals and turns end_time into an absolute time.   *)
(***************************************************************************)
MainStartSerial(ok) ==
    /\ pc_main = "serial"
    /\ IF ~enable_serial
       THEN /\ pc_main' = "join"
            /\ UNCHANGED <<ser_pc, ser_end_time, flat_time, can_pc>>
       ELSE IF ok
       THEN /\ pc_main' = "reading"
            /\ ser_pc' = "running"
            /\ flat_time' = Micros(now)
            /\ ser_end_time' = IF end_time # None THEN Some(now + Val(end_time))
                               ELSE None
            /\ UNCHANGED can_pc
       ELSE /\ pc_main' = "crashed"
            /\ can_pc' = KillDaemon(can_pc)
            /\ UNCHANGED <<ser_pc, ser_end_time, flat_time>>
    /\ UNCHANGED <<enable_serial, enable_CAN, end_time, TERMINATOR_FLAG, now,
                   framerVars, null_cnt, serial_file, ser_stop, consumed, reads,
                   cancel_reads, empty_run, stop_reads, can_messages, can_file,
                   can_stop,
                   received, can_dropped>>

(***************************************************************************)
(* main, lines 274-275: join the CAN thread, then return.                  *)
(***************************************************************************)
Joined(pc) == pc = "done"

MainJoin ==
    /\ pc_main = "join"
    /\ enable_CAN => Joined(can_pc)
    /\ pc_main' = "closed"
    /\ UNCHANGED <<enable_serial, enable_CAN, end_time, TERMINATOR_FLAG, now,
                   serVars, canVars>>

(***************************************************************************)
(* read_serial, the loop of lines 152-200 and the handlers of lines        *)
(* 201-205.                                                                *)
(***************************************************************************)
ReadBudget == IF enable_CAN THEN MaxSessionReads ELSE MaxReads

\* line 159
StalledEarly(n) == n >= NULL_CNT

\* a stall that needs one more empty read
StalledLate(n) == n > NULL_CNT + 1

Stalled(n) == n > NULL_CNT

\* queue[:-1]
WholeQueue(q) == q

ButLast(q) == SubSeq(q, 1, Len(q) - 1)

\* "ts - flat_time" raises TypeError when ts is None: None here, and
\* otherwise the list after save_message
Emit(res, ts, message_type) ==
    IF ts = None THEN None
    ELSE Some(save_message(messages, res, Val(ts) - flat_time, message_type))

\* lines 170-173 and 188-191: what a frame start does with the pending bytes
ClosePending ==
    IF ubx_flag THEN Emit(ButLast(queue), ubx_timestamp, "UBX")
    ELSE IF Len(queue) - 1 > 0 THEN Emit(ButLast(queue), unknown_timestamp, "Unknown")
    ELSE Some(messages)

\* the end of a line that takes every pending buffer for a text line
CloseLineText == Emit(queue \o <<LF>>, nmea_timestamp, "NMEA")

\* lines 179-183: what the end of a line does with the pending bytes
CloseLine ==
    IF ~ubx_flag THEN Emit(queue \o <<LF>>, nmea_timestamp, "NMEA")
    ELSE Emit(ButLast(queue), ubx_timestamp, "UBX")

\* the loop is left: finally writes the records and read_serial returns
SerialStop(reason) ==
    /\ ser_pc' = "done"
    /\ ser_stop' = reason
    /\ serial_file' = Some(messages')
    /\ pc_main' = "join"

SerialContinue ==
    /\ UNCHANGED <<ser_pc, ser_stop, serial_file, pc_main>>

\* lines 197-200
SerialCheckStop(data) ==
    IF StopRequested(ser_end_time, now)
    THEN SerialStop(StopReason(ser_end_time, now)) /\ UNCHANGED previous_data
    ELSE SerialContinue /\ previous_data' = data

\* an exception inside the loop body, lines 201-205: "error" when ser.read
\* raised, "typeerror" when a timestamp that is still None was subtracted
SerialRaise(reason) ==
    /\ UNCHANGED framerVars
    /\ SerialStop(reason)

\* one iteration of the loop; data is what ser.read(size=1) returned:
\* << >> for b'' or one byte
SerialStep(data) ==
    /\ ser_pc = "running"
    /\ reads' = reads + 1
    /\ consumed' = consumed \o data
    /\ cancel_reads' = IF TERMINATOR_FLAG THEN cancel_reads + 1 ELSE 0
    /\ empty_run' = IF data = << >> THEN empty_run + 1 ELSE 0
    /\ stop_reads' = IF StopRequested(ser_end_time, now) THEN stop_reads + 1
                     ELSE stop_reads
    /\ null_cnt' = IF data = << >> THEN null_cnt + 1 ELSE 0
    /\ IF Stalled(null_cnt')
       THEN /\ UNCHANGED framerVars
            /\ SerialStop("stall")
       ELSE IF Len(queue) < 1
       THEN /\ previous_data' = data
            /\ queue' = queue \o data
            /\ UNCHANGED <<ubx_flag, ubx_timestamp, nmea_timestamp,
                           unknown_timestamp, messages>>
            /\ SerialContinue
       ELSE LET last_two_bytes == previous_data \o data
            IN  IF last_two_bytes = NMEA_START
                THEN IF ClosePending = None THEN SerialRaise("typeerror")
                     ELSE /\ messages' = Val(ClosePending)
                          /\ nmea_timestamp' = Some(Micros(now))
                          /\ queue' = last_two_bytes
                          /\ ubx_flag' = FALSE
                          /\ UNCHANGED <<ubx_timestamp, unknown_timestamp>>
                          /\ SerialCheckStop(data)
                ELSE IF last_two_bytes = NMEA_END
                THEN IF CloseLine = None THEN SerialRaise("typeerror")
                     ELSE /\ messages' = Val(CloseLine)
                          /\ ubx_flag' = FALSE
                          /\ queue' = << >>
                          /\ unknown_timestamp' = Some(Micros(now))
                          /\ UNCHANGED <<ubx_timestamp, nmea_timestamp>>
                          /\ SerialCheckStop(data)
                ELSE IF last_two_bytes = UBX_START
                THEN IF ClosePending = None THEN SerialRaise("typeerror")
                     ELSE /\ messages' = Val(ClosePending)
                          /\ ubx_flag' = TRUE
                          /\ ubx_timestamp' = Some(Micros(now))
                          /\ queue' = last_two_bytes
                          /\ UNCHANGED <<nmea_timestamp, unknown_timestamp>>
                          /\ SerialCheckStop(data)
                ELSE /\ queue' = queue \o data
                     /\ UNCHANGED <<ubx_flag, ubx_timestamp, nmea_timestamp,
                                    unknown_timestamp, messages>>
                     /\ SerialCheckStop(data)
    /\ UNCHANGED <<enable_serial, enable_CAN, end_time, TERMINATOR_FLAG, now,
                   ser_end_time, flat_time, canVars>>

SerialRead(data) ==
    /\ reads < ReadBudget
    /\ SerialStep(data)

\* ser.read raises (the device was unplugged): lines 201-205
SerialReadError ==
    /\ ser_pc = "running"
    /\ SerialRaise("error")
    /\ UNCHANGED <<enable_serial, enable_CAN, end_time, TERMINATOR_FLAG, now,
                   ser_end_time, flat_time, null_cnt, consumed, reads,
                   cancel_reads, empty_run, stop_reads, canVars>>

(***************************************************************************)
(* read_CAN_bus.  The database and the bus are outside the program: the    *)
(* database of the model knows one message, of one data byte, and the bus  *)
(* delivers frames of a known and of an unknown identifier, with or        *)
(* without that byte.                                                      *)
(***************************************************************************)
db_can == {[frame_id |-> 1, length |-> 1]}

FrameIds == {1, 2}

FrameData == {<< >>, <<7>>}

Frames == [arbitration_id : FrameIds, data : FrameData]

\* line 95
message_ids == {m.frame_id : m \in db_can}

\* line 99
IsKnown(id) == id \in message_ids

\* db_can.decode_message raises when the data are shorter than the message
Decodes(id, data) ==
    \E m \in db_can : m.frame_id = id /\ Len(data) >= m.length

\* the length of the message the database holds for id (0: none)
MessageLength(id) ==
    IF \E m \in db_can : m.frame_id = id
    THEN (CHOOSE m \in db_can : m.frame_id = id).length
    ELSE 0

decode_message(id, data) == SubSeq(data, 1, MessageLength(id))

\* lines 99-102, what the loop does with a frame: "skip" it (continue),
\* "raise" from decode_message, or "append" its record
ClassifyNoFilter(m) ==
    IF IsKnown(m.arbitration_id) /\ ~Decodes(m.arbitration_id, m.data) THEN "raise"
    ELSE "append"

Classify(m) ==
    IF ~IsKnown(m.arbitration_id) THEN "skip"
    ELSE IF ~Decodes(m.arbitration_id, m.data) THEN "raise"
    ELSE "append"

\* lines 91-96: an exception here reaches finally with no record, where
\* can_bus.shutdown() raises on the unbound name and the thread ends
CanSetup(ok) ==
    /\ can_pc = "setup"
    /\ IF ok
       THEN can_pc' = "running" /\ UNCHANGED can_stop
       ELSE can_pc' = "done" /\ can_stop' = "error"
    /\ UNCHANGED <<mainVars, serVars, can_messages, can_file, received, can_dropped>>

\* the loop is left: lines 117-124
CanStop(reason) ==
    /\ can_pc' = "done"
    /\ can_stop' = reason
    /\ can_file' = IF Len(can_messages') > 0 THEN Some(can_messages') ELSE can_file

CanContinue ==
    /\ UNCHANGED <<can_pc, can_stop, can_file>>

\* one iteration of the loop of lines 97-116; message is what
\* can_bus.recv(CAN_WAIT_TIME) returned: None or Some(frame).  A Message is
\* always true, so line 101 takes the first branch whenever it is reached.
CanIteration(message) ==
    /\ can_pc = "running"
    /\ IF message = None
       THEN \* line 99: None has no arbitration_id
            /\ UNCHANGED <<can_messages, can_dropped>>
            /\ CanStop("error")
       ELSE LET m == Val(message)
            IN  IF Classify(m) = "skip"
                THEN /\ UNCHANGED <<can_messages, can_dropped>>
                     /\ CanContinue
                ELSE IF Classify(m) = "raise"
                THEN /\ UNCHANGED can_messages
                     /\ can_dropped' = TRUE
                     /\ CanStop("error")
                ELSE /\ can_messages' = Append(can_messages,
                            [timestamp |-> now,
                             arbitration_id |-> m.arbitration_id,
                             data |-> decode_message(m.arbitration_id, m.data)])
                     /\ UNCHANGED can_dropped
                     /\ IF StopRequested(end_time, now)
                        THEN CanStop(StopReason(end_time, now))
                        ELSE CanContinue
    /\ UNCHANGED <<mainVars, serVars>>

CanRecv(message) ==
    /\ Len(received) < MaxFrames
    /\ received' = Append(received, message)
    /\ CanIteration(message)

Next ==
    \/ Tick
    \/ signal_handler
    \/ MainStartCan
    \/ \E ok \in BOOLEAN : MainStartSerial(ok)
    \/ MainJoin
    \/ \E data \in {<< >>} \cup {<<b>> : b \in Bytes} : SerialRead(data)
    \/ SerialReadError
    \/ \E ok \in BOOLEAN : CanSetup(ok)
    \/ \E message \in {None} \cup {Some(m) : m \in Frames} : CanRecv(message)

Spec == Init /\ [][Next]_vars

(***************************************************************************)
(* The session with its scheduling.  Both loops run on: their reads return *)
(* (the serial port is opened with timeout=0, recv waits at most           *)
(* CAN_WAIT_TIME), so every thread that can take a step eventually takes   *)
(* one.  The sources deliver without end once the flag is set; before, the *)
(* bounds above limit them.  received keeps the last MaxFrames results.    *)
(***************************************************************************)
SerialReadLive(data) ==
    /\ reads < MaxSessionReads \/ TERMINATOR_FLAG
    /\ SerialStep(data)

LastFrames(s) == IF Len(s) > MaxFrames THEN Tail(s) ELSE s

CanRecvLive(message) ==
    /\ Len(received) < MaxFrames \/ TERMINATOR_FLAG
    /\ received' = LastFrames(Append(received, message))
    /\ CanIteration(message)

SerialThread ==
    \/ \E data \in {<< >>} \cup {<<b>> : b \in Bytes} : SerialReadLive(data)
    \/ SerialReadError

CanThread ==
    \/ \E ok \in BOOLEAN : CanSetup(ok)
    \/ \E message \in {None} \cup {Some(m) : m \in Frames} : CanRecvLive(message)

MainThread ==
    \/ MainStartCan
    \/ \E ok \in BOOLEAN : MainStartSerial(ok)
    \/ MainJoin

NextLive ==
    \/ Tick
    \/ signal_handler
    \/ MainThread
    \/ SerialThread
    \/ CanThread

Fairness ==
    /\ WF_vars(MainThread)
    /\ WF_vars(SerialThread)
    /\ WF_vars(CanThread)

LiveSpec == Init /\ [][NextLive]_vars /\ Fairness

(***************************************************************************)
(* The serial reader alone, started without --enable_CAN and without       *)
(* --end_time, over a longer sequence of reads.                            *)
(***************************************************************************)
FramerInit ==
    /\ Init
    /\ enable_serial
    /\ ~enable_CAN
    /\ end_time = None

SerialReadFramer(data) ==
    /\ reads < MaxFramerReads
    /\ SerialStep(data)

FramerNext ==
    \/ Tick
    \/ signal_handler
    \/ MainThread
    \/ \E data \in {<< >>} \cup {<<b>> : b \in Bytes} : SerialReadFramer(data)
    \/ SerialReadError

FramerSpec == FramerInit /\ [][FramerNext]_vars

(***************************************************************************)
(* What a record holds: the bytes its data field stands for.               *)
(***************************************************************************)
HexValue(c) == IF c < 97 THEN c - 48 ELSE c - 87

RECURSIVE Unhex(_)
Unhex(str) ==
    IF Len(str) < 2 THEN << >>
    ELSE <<HexValue(str[1]) * 16 + HexValue(str[2])>> \o Unhex(SubSeq(str, 3, Len(str)))

EncodeCodePoint(c) ==
    IF c < 128 THEN <<c>>
    ELSE IF c < 2048 THEN <<192 + (c \div 64), 128 + (c % 64)>>
    ELSE IF c < 65536
    THEN <<224 + (c \div 4096), 128 + ((c \div 64) % 64), 128 + (c % 64)>>
    ELSE <<240 + (c \div 262144), 128 + ((c \div 4096) % 64),
           128 + ((c \div 64) % 64), 128 + (c % 64)>>

RECURSIVE Utf8Encode(_)
Utf8Encode(str) ==
    IF str = << >> THEN << >>
    ELSE EncodeCodePoint(Head(str)) \o Utf8Encode(Tail(str))

Payload(rec) == IF rec.type = "NMEA" THEN Utf8Encode(rec.data) ELSE Unhex(rec.data)

RECURSIVE ConcatPayloads(_)
ConcatPayloads(recs) ==
    IF recs = << >> THEN << >>
    ELSE Payload(Head(recs)) \o ConcatPayloads(Tail(recs))

Windows == {NMEA_START, NMEA_END, UBX_START}

\* s holds none of the three boundary windows
NoWindow(s) == \A i \in 1..(Len(s) - 1) : <<s[i], s[i + 1]>> \notin Windows

\* every ser.read so far returned a byte
NoEmptyRead == reads = Len(consumed)

\* s is first, a body without boundary window, then last
IsRun(s, first, last) ==
    /\ Len(s) >= 4
    /\ SubSeq(s, 1, 2) = first
    /\ SubSeq(s, Len(s) - 1, Len(s)) = last
    /\ NoWindow(SubSeq(s, 3, Len(s) - 2))

Body(s) == SubSeq(s, 3, Len(s) - 2)

(***************************************************************************)
(* C1, total coverage: once read_serial has returned, the payloads of the  *)
(* records it wrote, concatenated in order, are exactly the bytes read.    *)
(***************************************************************************)
C1_TotalCoverage ==
    ser_pc = "done" =>
        /\ serial_file # None
        /\ ConcatPayloads(Val(serial_file)) = consumed

(***************************************************************************)
(* C2, boundary determinism: after '$', 'G', a body without boundary       *)
(* window, CR, LF and no empty read, the record list is one NMEA record    *)
(* whose payload is the bytes read.                                        *)
(***************************************************************************)
C2_BoundaryDeterminism ==
    (IsRun(consumed, NMEA_START, NMEA_END) /\ NoEmptyRead) =>
        /\ Len(messages) = 1
        /\ messages[1].type = "NMEA"
        /\ Payload(messages[1]) = consumed

C4_FlushOnStop ==
    (ser_stop \in {"cancel", "deadline", "stall", "error"} /\ queue # << >>) =>
        /\ serial_file # None
        /\ Len(Val(serial_file)) >= 1
        /\ Payload(Val(serial_file)[Len(Val(serial_file))]) = queue

(***************************************************************************)
(* C5, cancellation promptness: once one read result has been processed    *)
(* with the flag set, the loop has been left and the records written.      *)
(***************************************************************************)
C5_CancelPrompt ==
    cancel_reads >= 1 =>
        /\ ser_pc = "done"
        /\ serial_file = Some(messages)

(***************************************************************************)
(* C6, stall timeout: the loop never stops for stall while at most         *)
(* NULL_CNT empty reads came in a row, it has stopped for stall as soon as *)
(* NULL_CNT + 1 did, and a byte resets the count.                          *)
(***************************************************************************)
C6_StallTimeout ==
    /\ ser_stop = "stall" => empty_run = NULL_CNT + 1
    /\ empty_run > NULL_CNT => (ser_pc = "done" /\ ser_stop = "stall")
    /\ null_cnt = empty_run

C6_Witness ==
    /\ ser_stop = "stall"
    /\ consumed # << >>

(***************************************************************************)
(* C7, unknown-identifier filtering: no record of the bus pipeline, in its *)
(* list or written, carries an identifier the database does not hold.      *)
(***************************************************************************)
KnownAtStartup == {m.frame_id : m \in db_can}

C7_UnknownFiltered ==
    /\ \A i \in 1..Len(can_messages) :
          can_messages[i].arbitration_id \in KnownAtStartup
    /\ can_file # None =>
          \A i \in 1..Len(Val(can_file)) :
              Val(can_file)[i].arbitration_id \in KnownAtStartup

C7_Witness ==
    /\ \E j \in 1..Len(received) :
          /\ received[j] # None
          /\ Val(received[j]).arbitration_id \notin KnownAtStartup
          /\ Val(received[j]).data # << >>
    /\ can_file # None
    /\ Len(Val(can_file)) >= 1

(***************************************************************************)
(* C8, the deadline is absolute and shared: a pipeline that stopped on the *)
(* deadline condition did so after the clock passed session start plus     *)
(* the configured duration; the session starts no earlier than EpochStart. *)
(***************************************************************************)
C8_DeadlineAbsolute ==
    (ser_stop = "deadline" \/ can_stop = "deadline") =>
        /\ end_time # None
        /\ now > EpochStart + Val(end_time)

(***************************************************************************)
(* C9, a decode failure does not abort the bus pipeline: after a frame of  *)
(* a known identifier that does not decode, the loop is still receiving,   *)
(* or it stopped on the deadline or the flag.                              *)
(***************************************************************************)
C9_DecodeFailureIsolated ==
    (received # << >> /\ received[Len(received)] # None) =>
        LET m == Val(received[Len(received)])
        IN  (IsKnown(m.arbitration_id) /\ ~Decodes(m.arbitration_id, m.data)) =>
                (can_pc = "running" \/ can_stop \in {"deadline", "cancel"})

(***************************************************************************)
(* C10, fault isolation: the bus pipeline is never ended by the serial     *)
(* side, and when main has ended the records of each pipeline have been    *)
(* written.                                                                *)
(***************************************************************************)
C10_FaultIsolation ==
    /\ can_pc # "killed"
    /\ pc_main \in {"closed", "crashed"} =>
          /\ can_messages # << >> => can_file = Some(can_messages)
          /\ ser_pc # "idle" => serial_file = Some(messages)

(***************************************************************************)
(* C11, the session always closes: once the flag is set, main eventually   *)
(* ends (join has returned, or main has raised).                           *)
(***************************************************************************)
C11_SessionCloses == TERMINATOR_FLAG ~> (pc_main \in {"closed", "crashed"})

LastTwo(s) == SubSeq(s, Len(s) - 1, Len(s))

(***************************************************************************)
(* C12, classification fallback: when LF closes a line outside a binary    *)
(* frame, the Text-start timestamp is recorded and the payload (the        *)
(* pending bytes and LF) is not valid text, the step appends exactly one   *)
(* record, of type Unknown, holding the payload byte for byte and the      *)
(* Text-start timestamp; the loop goes on unless the flag or the deadline  *)
(* stops it.                                                               *)
(***************************************************************************)
C12_Case ==
    /\ ser_pc = "running"
    /\ reads' = reads + 1
    /\ consumed' = consumed \o <<LF>>
    /\ previous_data = <<CR>>
    /\ queue # << >>
    /\ ~ubx_flag
    /\ nmea_timestamp # None
    /\ ~Utf8Valid(queue \o <<LF>>)

C12_Effect ==
    /\ Len(messages') = Len(messages) + 1
    /\ SubSeq(messages', 1, Len(messages)) = messages
    /\ messages'[Len(messages')].type = "Unknown"
    /\ Unhex(messages'[Len(messages')].data) = queue \o <<LF>>
    /\ messages'[Len(messages')].timestamp = Val(nmea_timestamp) - flat_time
    /\ ser_stop' \in {"", "cancel", "deadline"}
    /\ ser_stop' = "" => ser_pc' = "running"

C12_ClassificationFallback == [][C12_Case => C12_Effect]_vars

C12_Witness ==
    /\ ser_pc = "running"
    /\ Len(messages) = 1
    /\ messages[1].type = "Unknown"
    /\ Len(consumed) >= 4
    /\ SubSeq(consumed, 1, 2) = NMEA_START
    /\ LastTwo(consumed) = NMEA_END
    /\ Payload(messages[1]) = consumed
    /\ ~Utf8Valid(consumed)

(***************************************************************************)
(* C13, the bus pipeline tests its stop conditions once per frame: a frame *)
(* received while the flag is set, or after the absolute deadline that     *)
(* read_serial recorded has passed, ends the loop, whatever the frame.     *)
(***************************************************************************)
C13_StopCheckedPerFrame ==
    [][(/\ can_pc = "running"
        /\ received' # received
        /\ received'[Len(received')] # None
        /\ TERMINATOR_FLAG \/ DeadlinePassed(ser_end_time, now))
            => can_pc' = "done"]_vars

(***************************************************************************)
(* C14, start timestamps are defined when used: read_serial never ends on  *)
(* the subtraction of a timestamp that is still None.                      *)
(***************************************************************************)
C14_TimestampsDefined == ser_stop # "typeerror"

(***************************************************************************)
(* C16, CR LF inside an open binary frame: when LF follows CR while the    *)
(* binary flag is set, the step appends records that are all of type UBX   *)
(* and carry the Binary-start timestamp of the open frame; afterwards the  *)
(* flag is clear, the pending buffer is empty and the idle timestamp is    *)
(* the time of the step.                                                   *)
(***************************************************************************)
C16_Case ==
    /\ ser_pc = "running"
    /\ reads' = reads + 1
    /\ consumed' = consumed \o <<LF>>
    /\ previous_data = <<CR>>
    /\ queue # << >>
    /\ ubx_flag

C16_Effect ==
    /\ Len(messages') > Len(messages)
    /\ SubSeq(messages', 1, Len(messages)) = messages
    /\ \A i \in (Len(messages) + 1)..Len(messages') :
          /\ messages'[i].type = "UBX"
          /\ messages'[i].timestamp = Val(ubx_timestamp) - flat_time
    /\ ~ubx_flag'
    /\ queue' = << >>
    /\ unknown_timestamp' = Some(Micros(now))

C16_CrLfInBinary == [][C16_Case => C16_Effect]_vars

C16_Witness ==
    /\ ser_stop = ""
    /\ ~ubx_flag
    /\ queue = << >>
    /\ nmea_timestamp = None
    /\ Len(consumed) >= 4
    /\ LastTwo(consumed) = NMEA_END
    /\ Len(messages) >= 1
    /\ messages[Len(messages)].type = "UBX"
    /\ unknown_timestamp # None
    /\ ubx_timestamp # None
    /\ Val(unknown_timestamp) > Val(ubx_timestamp)

(***************************************************************************)
(* C19, the binary flag: whenever ubx_flag is set the pending buffer       *)
(* begins with 0xB5 0x62 and the Binary-start timestamp is recorded, and   *)
(* every record of type UBX has a payload that begins with 0xB5 0x62.      *)
(***************************************************************************)
SyncPattern == <<SYNC1, SYNC2>>

BeginsWithSync(s) == Len(s) >= 2 /\ SubSeq(s, 1, 2) = SyncPattern

C19_BinaryFlag ==
    /\ ubx_flag => (BeginsWithSync(queue) /\ ubx_timestamp # None)
    /\ \A i \in 1..Len(messages) :
          messages[i].type = "UBX" => BeginsWithSync(Payload(messages[i]))

C19_Witness ==
    /\ ubx_flag
    /\ Len(queue) >= 3
    /\ \E i \in 1..Len(messages) : messages[i].type = "UBX"

(***************************************************************************)
(* C17, bus timeout is a clean stop: when recv returned None (no frame     *)
(* within the wait time) and read_CAN_bus has returned, the loop was not   *)
(* left through the except block.                                          *)
(***************************************************************************)
C17_TimeoutCleanStop ==
    (/\ can_pc = "done"
     /\ received # << >>
     /\ received[Len(received)] = None)
    => can_stop # "error"

(***************************************************************************)
(* C18, empty reads do not change framing: while the loop runs, whenever   *)
(* the last two bytes read form a boundary window the window has been      *)
(* recognised, whether or not empty reads lie between the bytes: the       *)
(* pending buffer is empty after CR LF and is the window after '$G' or     *)
(* the sync pattern.                                                       *)
(***************************************************************************)
C18_WindowAcrossEmptyRead ==
    (/\ ser_stop = ""
     /\ Len(consumed) >= 2
     /\ LastTwo(consumed) \in Windows)
    => queue = (IF LastTwo(consumed) = NMEA_END THEN << >> ELSE LastTwo(consumed))

C15_TextRecordShape ==
    \A i \in 1..Len(messages) :
        messages[i].type = "NMEA" =>
            LET p == Payload(messages[i])
            IN  /\ Len(p) >= 4
                /\ SubSeq(p, 1, 2) = <<DOLLAR, LETTER_G>>
                /\ LastTwo(p) = <<CR, LF>>

=============================================================================
